---- MODULE Spec2Model ----
(***************************************************************************)
(* Model of baseball.py: the indexed max-heap (class Heap), the player     *)
(* record (class PlayerRecord) and the statistics tracker (class Problem). *)
(*                                                                         *)
(* Python objects live in an object store `objs` (a sequence); an object   *)
(* reference is a position in that store, 0 stands for the reference None. *)
(* Player names are the integers 1..NumPlayers, 0 is the name None.        *)
(* A Python value that is "an int or None" is a tuple: <<i>> or <<>>.      *)
(* A dict is a function whose DOMAIN is the set of keys present.           *)
(* A float hits/ab is the fraction in lowest terms <<n, d>>: for the small *)
(* integers of the model two quotients are equal (ordered) as doubles      *)
(* exactly when the fractions are equal (ordered).                         *)
(* An uncaught exception ends the program (run_from_list catches nothing). *)
(***************************************************************************)
EXTENDS Integers, Sequences, FiniteSets, TLC

\* ---------------------------------------------------------------- bounds
NumPlayers == 3
MaxAtBats == 4
MaxHits == 2
MaxRbi == 1
MaxK == 3
MaxQueries == 1
NumRecords == 4

Players == 1 .. NumPlayers
NoPlayer == 0
NoObj == 0
None == <<>>
Some(i) == <<i>>

Stats == {"ab", "hits", "rbi", "avg"}
StatNames == Stats \cup {"unknown_stat"}

\* ------------------------------------------------------- small utilities
Range(s) == {s[i] : i \in 1 .. Len(s)}

Min(a, b) == IF a < b THEN a ELSE b

RECURSIVE GCD(_, _)
GCD(a, b) == IF b = 0 THEN a ELSE GCD(b, a % b)

\* float(hits) / float(ab), ab # 0
FloatDiv(hits, ab) ==
    LET g == GCD(hits, ab) IN <<hits \div g, ab \div g>>

\* the comparison  x < y  of two numbers (ints carried as <<n, 1>>)
Less(x, y) == x[1] * y[2] < y[1] * x[2]

\* dict assignment  m[k] = v
Put(m, k, v) == [x \in (DOMAIN m) \cup {k} |-> IF x = k THEN v ELSE m[x]]

\* list indexing  s[i]  with Python's negative indices
PyIndexOK(s, i) == i >= 0 - Len(s) /\ i < Len(s)
PyPos(s, i) == IF i >= 0 THEN i + 1 ELSE Len(s) + i + 1
PyGet(s, i) == s[PyPos(s, i)]
PySet(s, i, v) == [s EXCEPT ![PyPos(s, i)] = v]

\* ------------------------------------------------------------ PlayerRecord
PlayerRecord(player, ab, hits, rbi) ==
    [player |-> player, ab |-> ab, hits |-> hits,
     avg |-> IF ab = 0 THEN <<0, 1>> ELSE FloatDiv(hits, ab),
     rbi |-> rbi]

\* getattr(record, sorting_key)
GetAttr(r, key) ==
    CASE key = "ab" -> <<r.ab, 1>>
      [] key = "hits" -> <<r.hits, 1>>
      [] key = "rbi" -> <<r.rbi, 1>>
      [] key = "avg" -> r.avg

\* -------------------------------------------------------------------- Heap
\* Heap.__init__
NewHeap(sorting_key) ==
    [heap |-> <<>>, mapping |-> <<>>, sorting_key |-> sorting_key]

\* getattr(self.heap[i], self.sorting_key)
KeyAt(self, o, i) == GetAttr(o[PyGet(self.heap, i)], self.sorting_key)

\* the body of the sift loops: swap the mappings, then swap the slots
SwapSlots(self, o, parent, child) ==
    [self EXCEPT
       !.mapping = Put(Put(self.mapping,
                           o[PyGet(self.heap, parent)].player, child),
                       o[PyGet(self.heap, child)].player, parent),
       !.heap = PySet(PySet(self.heap, parent, PyGet(self.heap, child)),
                      child, PyGet(self.heap, parent))]

FloorParent(child) == (child - 1) \div 2

RECURSIVE HeapifyUpLoop(_, _, _, _)

\* faulty variant of HeapifyUpLoop: the test for parent == -1 is left out
HeapifyUpLoopNoRootTest(self, o, child, parent) ==
    IF ~PyIndexOK(self.heap, parent) \/ ~PyIndexOK(self.heap, child)
    THEN [self |-> self, err |-> "IndexError"]
    ELSE IF Less(KeyAt(self, o, parent), KeyAt(self, o, child))
         THEN HeapifyUpLoop(SwapSlots(self, o, parent, child), o,
                            parent, FloorParent(parent))
         ELSE [self |-> self, err |-> "ok"]

\* lines 38-58: the loop of heapify_up
HeapifyUpLoop(self, o, child, parent) ==
    IF ~PyIndexOK(self.heap, parent) \/ ~PyIndexOK(self.heap, child)
    THEN [self |-> self, err |-> "IndexError"]
    ELSE IF Less(KeyAt(self, o, parent), KeyAt(self, o, child))
         THEN IF parent = -1
              THEN [self |-> self, err |-> "ok"]
              ELSE HeapifyUpLoop(SwapSlots(self, o, parent, child), o,
                                 parent, FloorParent(parent))
         ELSE [self |-> self, err |-> "ok"]

\* Heap.heapify_up(child); child is an int <<i>> or None
HeapifyUp(self, o, child) ==
    IF child = None
    THEN [self |-> self, err |-> "TypeError"]
    ELSE HeapifyUpLoop(self, o, child[1], FloorParent(child[1]))

\* faulty variant of PickChild: the left child is taken without a look at
\* the right one
PickChildLeft(self, o, parent) ==
    IF Len(self.heap) <= parent * 2 + 1
    THEN [kind |-> "none", child |-> 0]
    ELSE [kind |-> "child", child |-> parent * 2 + 1]

\* faulty variant of PickChild: the comparison of the two children is the
\* wrong way round
PickChildSmaller(self, o, parent) ==
    IF Len(self.heap) <= parent * 2 + 1
    THEN [kind |-> "none", child |-> 0]
    ELSE IF Len(self.heap) <= parent * 2 + 2
    THEN [kind |-> "child", child |-> parent * 2 + 1]
    ELSE IF \/ ~PyIndexOK(self.heap, parent * 2 + 1)
            \/ ~PyIndexOK(self.heap, parent * 2 + 2)
    THEN [kind |-> "IndexError", child |-> 0]
    ELSE IF Less(KeyAt(self, o, parent * 2 + 1), KeyAt(self, o, parent * 2 + 2))
    THEN [kind |-> "child", child |-> parent * 2 + 1]
    ELSE [kind |-> "child", child |-> parent * 2 + 2]

\* the child selection of heapify_down (lines 69-78 and 98-107):
\* kind "none" when there is no left child, "IndexError" when a slot that
\* is read does not exist
PickChild(self, o, parent) ==
    IF Len(self.heap) <= parent * 2 + 1
    THEN [kind |-> "none", child |-> 0]
    ELSE IF Len(self.heap) <= parent * 2 + 2
    THEN [kind |-> "child", child |-> parent * 2 + 1]
    ELSE IF \/ ~PyIndexOK(self.heap, parent * 2 + 1)
            \/ ~PyIndexOK(self.heap, parent * 2 + 2)
    THEN [kind |-> "IndexError", child |-> 0]
    ELSE IF Less(KeyAt(self, o, parent * 2 + 2), KeyAt(self, o, parent * 2 + 1))
    THEN [kind |-> "child", child |-> parent * 2 + 1]
    ELSE [kind |-> "child", child |-> parent * 2 + 2]

RECURSIVE HeapifyDownLoop(_, _, _, _)

\* enter the loop with the child picked, or leave without one
HeapifyDownFrom(self, o, parent, c) ==
    IF c.kind = "child"
    THEN HeapifyDownLoop(self, o, parent, c.child)
    ELSE [self |-> self, err |-> IF c.kind = "none" THEN "ok" ELSE c.kind]

\* faulty variant of HeapifyDownLoop: the loop also runs on equal keys
HeapifyDownLoopOnEqual(self, o, parent, child) ==
    IF ~PyIndexOK(self.heap, parent) \/ ~PyIndexOK(self.heap, child)
    THEN [self |-> self, err |-> "IndexError"]
    ELSE IF ~Less(KeyAt(self, o, child), KeyAt(self, o, parent))
         THEN IF child >= Len(self.heap)
              THEN [self |-> self, err |-> "ok"]
              ELSE HeapifyDownFrom(
                       SwapSlots(self, o, parent, child), o, child,
                       PickChild(SwapSlots(self, o, parent, child), o, child))
         ELSE [self |-> self, err |-> "ok"]

\* lines 79-107: the loop of heapify_down
HeapifyDownLoop(self, o, parent, child) ==
    IF ~PyIndexOK(self.heap, parent) \/ ~PyIndexOK(self.heap, child)
    THEN [self |-> self, err |-> "IndexError"]
    ELSE IF Less(KeyAt(self, o, parent), KeyAt(self, o, child))
         THEN IF child >= Len(self.heap)
              THEN [self |-> self, err |-> "ok"]
              ELSE HeapifyDownFrom(
                       SwapSlots(self, o, parent, child), o, child,
                       PickChild(SwapSlots(self, o, parent, child), o, child))
         ELSE [self |-> self, err |-> "ok"]

\* Heap.heapify_down(parent); parent is an int <<i>> or None
HeapifyDown(self, o, parent) ==
    IF parent = None
    THEN [self |-> self, err |-> "TypeError"]
    ELSE HeapifyDownFrom(self, o, parent[1], PickChild(self, o, parent[1]))

\* faulty variant of SwapEnds: the swap is left out, so the last slot is
\* what gets popped
SwapEndsNot(heap) == heap

\* lines 119-122: the first and the last slot swapped
SwapEnds(heap) ==
    [[heap EXCEPT ![1] = heap[Len(heap)]] EXCEPT ![Len(heap)] = heap[1]]

\* lines 124-127: r is the outcome of heapify_down(0)
Extracted(r, output) == [self |-> r.self, ret |-> output, err |-> r.err]

\* faulty variant of ExtractMax: no test for the empty heap, so heap[0] is
\* read and raises
ExtractMaxUnguarded(self, o) ==
    IF Len(self.heap) < 1
    THEN [self |-> self, ret |-> NoObj, err |-> "IndexError"]
    ELSE Extracted(
             HeapifyDown([self EXCEPT !.heap = SubSeq(SwapEnds(self.heap), 1,
                                                      Len(self.heap) - 1)],
                         o, Some(0)),
             SwapEnds(self.heap)[Len(self.heap)])

\* Heap.extract_max(): the mapping is not touched here
ExtractMax(self, o) ==
    IF Len(self.heap) < 1
    THEN [self |-> self, ret |-> NoObj, err |-> "ok"]
    ELSE Extracted(
             HeapifyDown([self EXCEPT !.heap = SubSeq(SwapEnds(self.heap), 1,
                                                      Len(self.heap) - 1)],
                         o, Some(0)),
             SwapEnds(self.heap)[Len(self.heap)])

\* Heap.insert(element)
Insert(self, o, element) ==
    IF element = NoObj
    THEN [self |-> [self EXCEPT !.heap = Append(self.heap, element)],
          err |-> "AttributeError"]
    ELSE HeapifyUp([self EXCEPT
                      !.heap = Append(self.heap, element),
                      !.mapping = Put(self.mapping, o[element].player,
                                      Len(self.heap))],
                   o, Some(Len(self.heap)))

\* Heap.get_index(element): self.mapping.get(element.player, None)
GetIndex(self, o, element) ==
    IF o[element].player \in DOMAIN self.mapping
    THEN Some(self.mapping[o[element].player])
    ELSE None

\* Heap.validate_heap()
ValidateHeap(self, o) ==
    \A parent \in 0 .. Len(self.heap) - 1 :
        \A child \in {2 * parent + 1, 2 * parent + 2} :
            child < Len(self.heap) =>
                ~Less(KeyAt(self, o, parent), KeyAt(self, o, child))

\* ----------------------------------------------------------------- Problem
\* A Problem value: the object store and the five attributes of Problem.
\* Problem.__init__
NewProblem ==
    [objs |-> <<>>, player_record_mapping |-> <<>>,
     abHeap |-> NewHeap("ab"), hitsHeap |-> NewHeap("hits"),
     rbiHeap |-> NewHeap("rbi"), avgHeap |-> NewHeap("avg")]

\* faulty variant of UpdateRecord: avg is computed before hits is updated
UpdateRecordStaleAvg(r, hits, rbi) ==
    [r EXCEPT !.ab = r.ab + 1, !.hits = r.hits + hits, !.rbi = r.rbi + rbi,
              !.avg = FloatDiv(r.hits, r.ab + 1)]

\* lines 262-267: the record object is mutated in place
UpdateRecord(r, hits, rbi) ==
    [r EXCEPT !.ab = r.ab + 1, !.hits = r.hits + hits, !.rbi = r.rbi + rbi,
              !.avg = FloatDiv(r.hits + hits, r.ab + 1)]

\* lines 271-274: the repair of avgHeap
RepairAvg(self, o, element, hits) ==
    IF hits = 0
    THEN HeapifyDown(self, o, GetIndex(self, o, element))
    ELSE HeapifyUp(self, o, GetIndex(self, o, element))

\* four calls on the four heaps in sequence, then the assignment to the
\* record map; the first exception ends the sequence
Chain(P, o, prm, r1, r2, r3, r4) ==
    [P |-> [objs |-> o,
            player_record_mapping |->
                IF r1.err = "ok" /\ r2.err = "ok" /\ r3.err = "ok"
                   /\ r4.err = "ok"
                THEN prm ELSE P.player_record_mapping,
            abHeap |-> r1.self,
            hitsHeap |-> IF r1.err = "ok" THEN r2.self ELSE P.hitsHeap,
            rbiHeap |-> IF r1.err = "ok" /\ r2.err = "ok"
                        THEN r3.self ELSE P.rbiHeap,
            avgHeap |-> IF r1.err = "ok" /\ r2.err = "ok" /\ r3.err = "ok"
                        THEN r4.self ELSE P.avgHeap],
     err |-> IF r1.err # "ok" THEN r1.err
             ELSE IF r2.err # "ok" THEN r2.err
             ELSE IF r3.err # "ok" THEN r3.err
             ELSE r4.err]

\* lines 262-274: the player is known; o is the store after the update
UpdateKnown(P, o, player, currentRecord, hits) ==
    Chain(P, o, Put(P.player_record_mapping, player, currentRecord),
          HeapifyUp(P.abHeap, o, GetIndex(P.abHeap, o, currentRecord)),
          HeapifyUp(P.hitsHeap, o, GetIndex(P.hitsHeap, o, currentRecord)),
          HeapifyUp(P.rbiHeap, o, GetIndex(P.rbiHeap, o, currentRecord)),
          RepairAvg(P.avgHeap, o, currentRecord, hits))

\* faulty variant of InsertNew: the insert into avgHeap is forgotten
InsertNewThree(P, o, player) ==
    Chain(P, o, Put(P.player_record_mapping, player, Len(o)),
          Insert(P.abHeap, o, Len(o)),
          Insert(P.hitsHeap, o, Len(o)),
          Insert(P.rbiHeap, o, Len(o)),
          [self |-> P.avgHeap, err |-> "ok"])

\* lines 276-282: the player is new; o is the store with the new record,
\* which is its last object
InsertNew(P, o, player) ==
    Chain(P, o, Put(P.player_record_mapping, player, Len(o)),
          Insert(P.abHeap, o, Len(o)),
          Insert(P.hitsHeap, o, Len(o)),
          Insert(P.rbiHeap, o, Len(o)),
          Insert(P.avgHeap, o, Len(o)))

\* Problem.new_at_bat(player, hits, rbi)
NewAtBatOp(P, player, hits, rbi) ==
    IF player \in DOMAIN P.player_record_mapping
    THEN UpdateKnown(P,
                     [P.objs EXCEPT ![P.player_record_mapping[player]] =
                                        UpdateRecord(@, hits, rbi)],
                     player, P.player_record_mapping[player], hits)
    ELSE InsertNew(P, Append(P.objs, PlayerRecord(player, 1, hits, rbi)),
                   player)

\* faulty variant of CurrentStatsOp: the record made for an unknown player
\* is kept in the record map
CurrentStatsOpStore(P, player) ==
    IF player \in DOMAIN P.player_record_mapping
    THEN [P |-> P, ref |-> P.player_record_mapping[player],
          rec |-> P.objs[P.player_record_mapping[player]]]
    ELSE [P |-> [P EXCEPT
                   !.objs = Append(P.objs, PlayerRecord(NoPlayer, 1, 0, 0)),
                   !.player_record_mapping =
                       Put(P.player_record_mapping, player, Len(P.objs) + 1)],
          ref |-> Len(P.objs) + 1, rec |-> PlayerRecord(NoPlayer, 1, 0, 0)]

\* Problem.current_stats(player): the record returned, and the reference
\* returned (NoObj for the fresh sentinel object, which is stored nowhere)
CurrentStatsOp(P, player) ==
    IF player \in DOMAIN P.player_record_mapping
    THEN [P |-> P, ref |-> P.player_record_mapping[player],
          rec |-> P.objs[P.player_record_mapping[player]]]
    ELSE [P |-> P, ref |-> NoObj, rec |-> PlayerRecord(NoPlayer, 1, 0, 0)]

\* lines 331-332: for i in range(size): output.append(theHeap.extract_max())
RECURSIVE ExtractLoop(_, _, _, _)

\* r is the outcome of one extract_max()
ExtractLoopNext(r, o, size, output) ==
    IF r.err # "ok"
    THEN [self |-> r.self, output |-> output, err |-> r.err]
    ELSE ExtractLoop(r.self, o, size - 1, Append(output, r.ret))

ExtractLoop(self, o, size, output) ==
    IF size <= 0
    THEN [self |-> self, output |-> output, err |-> "ok"]
    ELSE ExtractLoopNext(ExtractMax(self, o), o, size, output)

\* lines 334-335: for i in output: theHeap.insert(i)
RECURSIVE ReinsertLoop(_, _, _, _)

\* r is the outcome of one insert(output[i])
ReinsertLoopNext(r, o, output, i) ==
    IF r.err # "ok"
    THEN [self |-> r.self, output |-> output, err |-> r.err]
    ELSE ReinsertLoop(r.self, o, output, i + 1)

ReinsertLoop(self, o, output, i) ==
    IF i > Len(output)
    THEN [self |-> self, output |-> output, err |-> "ok"]
    ELSE ReinsertLoopNext(Insert(self, o, output[i]), o, output, i)

\* lines 316-327: the heap a stat names, "" for no heap
HeapName(stat) ==
    IF stat = "ab" THEN "abHeap"
    ELSE IF stat = "hits" THEN "hitsHeap"
    ELSE IF stat = "rbi" THEN "rbiHeap"
    ELSE IF stat = "avg" THEN "avgHeap"
    ELSE ""

\* faulty variant of Reinserted: the first extracted record is not put back
ReinsertedButFirst(e, o) ==
    IF e.err = "ok" THEN ReinsertLoop(e.self, o, e.output, 2) ELSE e

\* lines 333-336: e is the outcome of the extraction loop
Reinserted(e, o) ==
    IF e.err = "ok" THEN ReinsertLoop(e.self, o, e.output, 1) ELSE e

\* r is the outcome of the two loops on the heap named name; kind is "list"
\* for a returned list, "None" when nothing is returned
QueryResult(P, name, r) ==
    [P |-> [P EXCEPT ![name] = r.self],
     kind |-> IF r.err = "ok" THEN "list" ELSE "None",
     output |-> IF r.err = "ok" THEN r.output ELSE <<>>,
     err |-> r.err, printed |-> ""]

\* Problem.current_best(stat, k)
CurrentBestOp(P, stat, k) ==
    IF HeapName(stat) = ""
    THEN [P |-> P, kind |-> "None", output |-> <<>>, err |-> "ok",
          printed |-> "not valid"]
    ELSE QueryResult(P, HeapName(stat),
             Reinserted(ExtractLoop(P[HeapName(stat)], P.objs,
                                    Min(k, Len(P[HeapName(stat)].heap)), <<>>),
                        P.objs))

\* ------------------------------------------------------------------- state
VARIABLES
    objs,                   \* the record objects created so far
    player_record_mapping,  \* Problem.player_record_mapping
    abHeap, hitsHeap, rbiHeap, avgHeap,   \* the four heaps of the Problem
    last,                   \* the last call: arguments, outcome, result
    hist,                   \* per player: the new_at_bat calls made so far
    queries,                \* the number of current_best calls made so far
    H,                      \* a Heap used on its own
    run,                    \* H: records returned by extract_max since the
                            \*    last insert
    runStart                \* H: the records in H when that run started

vars == <<objs, player_record_mapping, abHeap, hitsHeap, rbiHeap, avgHeap,
          last, hist, queries, H, run, runStart>>

heapVars == <<H, run, runStart>>

\* the Problem value of the current state
Prob ==
    [objs |-> objs, player_record_mapping |-> player_record_mapping,
     abHeap |-> abHeap, hitsHeap |-> hitsHeap,
     rbiHeap |-> rbiHeap, avgHeap |-> avgHeap]

SetProb(P) ==
    /\ objs' = P.objs
    /\ player_record_mapping' = P.player_record_mapping
    /\ abHeap' = P.abHeap
    /\ hitsHeap' = P.hitsHeap
    /\ rbiHeap' = P.rbiHeap
    /\ avgHeap' = P.avgHeap

\* the last call: its name and arguments, its outcome ("ok" or the
\* exception raised), the kind of value returned ("None", "record", "list"),
\* the list or the reference returned, and the text printed; for the calls
\* made on a Heap used on its own also the element and the index passed,
\* the number of swaps made, and, for a key changed in place, the key
\* before the change and whether the heap was in order then
NoCall ==
    [op |-> "", player |-> NoPlayer, hits |-> 0, rbi |-> 0, stat |-> "",
     k |-> 0, outcome |-> "ok", kind |-> "None", output |-> <<>>,
     ref |-> NoObj, printed |-> "",
     element |-> NoObj, index |-> 0, swaps |-> 0, old |-> <<0, 1>>,
     valid |-> FALSE]

NoHist == [p \in Players |-> [n |-> 0, hits |-> 0, rbi |-> 0]]

RECURSIVE SumCalls(_, _)
SumCalls(h, p) == IF p = 0 THEN 0 ELSE h[p].n + SumCalls(h, p - 1)

AtBats == SumCalls(hist, NumPlayers)

\* the program is still running: no call has raised
Running == last.outcome = "ok"

\* a call has ended with r: the state it leaves and what is seen of it
Returned(call, r) ==
    /\ SetProb(r.P)
    /\ last' = [call EXCEPT
                  !.outcome = IF call.op = "current_stats" THEN "ok" ELSE r.err,
                  !.kind = IF call.op = "new_at_bat" THEN "None"
                           ELSE IF call.op = "current_stats" THEN "record"
                           ELSE r.kind,
                  !.output = IF call.op = "current_best" THEN r.output ELSE <<>>,
                  !.ref = IF call.op = "current_stats" THEN r.ref ELSE NoObj,
                  !.printed = IF call.op = "current_best" THEN r.printed ELSE ""]

\* ----------------------------------------------------- the tracker's calls
Init ==
    /\ objs = NewProblem.objs
    /\ player_record_mapping = NewProblem.player_record_mapping
    /\ abHeap = NewProblem.abHeap
    /\ hitsHeap = NewProblem.hitsHeap
    /\ rbiHeap = NewProblem.rbiHeap
    /\ avgHeap = NewProblem.avgHeap
    /\ last = NoCall
    /\ hist = NoHist
    /\ queries = 0
    /\ H = NewHeap("ab")
    /\ run = <<>>
    /\ runStart = {}

new_at_bat(player, hits, rbi) ==
    /\ Running
    /\ AtBats < MaxAtBats
    /\ Returned([NoCall EXCEPT !.op = "new_at_bat", !.player = player,
                                !.hits = hits, !.rbi = rbi],
                NewAtBatOp(Prob, player, hits, rbi))
    /\ hist' = [hist EXCEPT ![player] =
                   [n |-> @.n + 1, hits |-> @.hits + hits, rbi |-> @.rbi + rbi]]
    /\ UNCHANGED <<queries, heapVars>>

current_stats(player) ==
    /\ Running
    /\ Returned([NoCall EXCEPT !.op = "current_stats", !.player = player],
                CurrentStatsOp(Prob, player))
    /\ UNCHANGED <<hist, queries, heapVars>>

current_best(stat, k) ==
    /\ Running
    /\ queries < MaxQueries
    /\ Returned([NoCall EXCEPT !.op = "current_best", !.stat = stat, !.k = k],
                CurrentBestOp(Prob, stat, k))
    /\ queries' = queries + 1
    /\ UNCHANGED <<hist, heapVars>>

\* the names a call is made with: the players seen so far and one unseen
\* name (names differ only in being equal or different, so the unseen name
\* is the first one not yet used)
Names == {p \in Players : p <= Len(objs) + 1}

Next ==
    \/ \E player \in Names, hits \in 0 .. MaxHits, rbi \in 0 .. MaxRbi :
          new_at_bat(player, hits, rbi)
    \/ \E player \in Names : current_stats(player)
    \/ \E stat \in StatNames, k \in 0 .. MaxK : current_best(stat, k)

Spec == Init /\ [][Next]_vars

\* ------------------------------------------------- a Heap used on its own
\* The records are made beforehand, one per identity, and their keys stay
\* as they are; a record is inserted only while it is not in the heap.
Records == 1 .. NumRecords

InitHeap ==
    /\ \E hits \in [Records -> 0 .. MaxHits], key \in Stats :
          /\ objs = [i \in Records |-> PlayerRecord(i, 1, hits[i], 0)]
          /\ H = NewHeap(key)
    /\ player_record_mapping = NewProblem.player_record_mapping
    /\ abHeap = NewProblem.abHeap
    /\ hitsHeap = NewProblem.hitsHeap
    /\ rbiHeap = NewProblem.rbiHeap
    /\ avgHeap = NewProblem.avgHeap
    /\ last = NoCall
    /\ hist = NoHist
    /\ queries = 0
    /\ run = <<>>
    /\ runStart = {}

\* H.insert(element) has ended with r
Inserted(r) ==
    /\ H' = r.self
    /\ last' = [NoCall EXCEPT !.op = "insert", !.outcome = r.err]
    /\ run' = <<>>
    /\ runStart' = Range(r.self.heap)

\* H.extract_max() has ended with r
ExtractedMax(r) ==
    /\ H' = r.self
    /\ last' = [NoCall EXCEPT
                  !.op = "extract_max", !.outcome = r.err,
                  !.kind = IF r.ret = NoObj THEN "None" ELSE "record",
                  !.ref = r.ret]
    /\ run' = IF r.ret = NoObj THEN run ELSE Append(run, r.ret)
    /\ UNCHANGED runStart

insert(element) ==
    /\ Running
    /\ element \notin Range(H.heap)
    /\ Inserted(Insert(H, objs, element))
    /\ UNCHANGED <<objs, player_record_mapping, abHeap, hitsHeap, rbiHeap,
                   avgHeap, hist, queries>>

extract_max ==
    /\ Running
    /\ ExtractedMax(ExtractMax(H, objs))
    /\ UNCHANGED <<objs, player_record_mapping, abHeap, hitsHeap, rbiHeap,
                   avgHeap, hist, queries>>

NextHeap ==
    \/ \E element \in Records : insert(element)
    \/ extract_max

SpecHeap == InitHeap /\ [][NextHeap]_vars

\* ------------------------------------------------------------- vocabulary
\* the heap of the Problem that a stat names
HeapOf(stat) == Prob[HeapName(stat)]

Tracked == DOMAIN player_record_mapping

\* the number of times x occurs in the sequence s
Count(s, x) == Cardinality({i \in 1 .. Len(s) : s[i] = x})

SameBag(s, t) ==
    /\ Len(s) = Len(t)
    /\ \A x \in Range(s) \cup Range(t) : Count(s, x) = Count(t, x)

\* every record in the array is found by get_index at the slot it is in
MappingConsistent(self, o) ==
    \A i \in 1 .. Len(self.heap) :
        /\ GetIndex(self, o, self.heap[i]) # None
        /\ GetIndex(self, o, self.heap[i])[1] >= 0
        /\ GetIndex(self, o, self.heap[i])[1] < Len(self.heap)
        /\ self.heap[GetIndex(self, o, self.heap[i])[1] + 1] = self.heap[i]

\* the records of the sequence s are in non-increasing order of stat
NonIncreasing(s, o, stat) ==
    \A i \in 1 .. Len(s) - 1 :
        ~Less(GetAttr(o[s[i]], stat), GetAttr(o[s[i + 1]], stat))

\* --------------------------- a Heap whose caller repairs it index by index
\* The caller inserts records (also one that is in the heap already), changes
\* the key of a record of the heap in place, as new_at_bat does, and calls
\* heapify_up and heapify_down with an index of its choice.  The records are
\* made beforehand, one per identity.

\* lines 38-58: the number of swaps the loop of heapify_up makes
RECURSIVE HeapifyUpSwaps(_, _, _, _)
HeapifyUpSwaps(self, o, child, parent) ==
    IF ~PyIndexOK(self.heap, parent) \/ ~PyIndexOK(self.heap, child)
    THEN 0
    ELSE IF Less(KeyAt(self, o, parent), KeyAt(self, o, child)) /\ parent # -1
    THEN 1 + HeapifyUpSwaps(SwapSlots(self, o, parent, child), o,
                            parent, FloorParent(parent))
    ELSE 0

\* lines 79-107: the number of swaps the loop of heapify_down makes
RECURSIVE HeapifyDownSwaps(_, _, _, _)

HeapifyDownSwapsFrom(self, o, parent, c) ==
    IF c.kind = "child" THEN HeapifyDownSwaps(self, o, parent, c.child) ELSE 0

HeapifyDownSwaps(self, o, parent, child) ==
    IF ~PyIndexOK(self.heap, parent) \/ ~PyIndexOK(self.heap, child)
    THEN 0
    ELSE IF /\ Less(KeyAt(self, o, parent), KeyAt(self, o, child))
            /\ child < Len(self.heap)
    THEN 1 + HeapifyDownSwapsFrom(
                 SwapSlots(self, o, parent, child), o, child,
                 PickChild(SwapSlots(self, o, parent, child), o, child))
    ELSE 0

\* the index of the first slot of the array that holds element
Position(heap, element) ==
    (CHOOSE i \in 1 .. Len(heap) :
        heap[i] = element /\ \A j \in 1 .. i - 1 : heap[j] # element) - 1

\* a heap in order: max-heap property, consistent mapping, no record twice
WellFormed(self, o) ==
    /\ ValidateHeap(self, o)
    /\ MappingConsistent(self, o)
    /\ Cardinality(Range(self.heap)) = Len(self.heap)

\* lines 263-266: the caller gives the record new values in place
SetKey(r, v) == [r EXCEPT !.hits = v, !.avg = FloatDiv(v, r.ab)]

InitRepair ==
    /\ \E hits \in [Records -> 0 .. MaxHits] :
          objs = [i \in Records |-> PlayerRecord(i, 1, hits[i], 0)]
    /\ H = NewHeap("hits")
    /\ player_record_mapping = NewProblem.player_record_mapping
    /\ abHeap = NewProblem.abHeap
    /\ hitsHeap = NewProblem.hitsHeap
    /\ rbiHeap = NewProblem.rbiHeap
    /\ avgHeap = NewProblem.avgHeap
    /\ last = NoCall
    /\ hist = NoHist
    /\ queries = 0
    /\ run = <<>>
    /\ runStart = {}

\* the last call broke the contract of Heap: it inserted a record that was
\* in the heap, or passed an index outside the array (a heapify call leaves
\* the length of the array as it is)
Violated ==
    \/ last.op = "insert" /\ Count(H.heap, last.element) > 1
    \/ /\ last.op \in {"heapify_up", "heapify_down"}
       /\ last.index \notin 0 .. Len(H.heap) - 1

\* the caller is still at work: no call has raised, and it stops after the
\* first call that broke the contract
AtWork == Running /\ ~Violated

\* H.insert(element), element in the heap or not
insert_element(element) ==
    /\ AtWork
    /\ H' = Insert(H, objs, element).self
    /\ last' = [NoCall EXCEPT !.op = "insert", !.element = element,
                              !.outcome = Insert(H, objs, element).err]
    /\ UNCHANGED <<objs, player_record_mapping, abHeap, hitsHeap, rbiHeap,
                   avgHeap, hist, queries, run, runStart>>

\* the key of a record of the heap is changed in place
set_key(element, v) ==
    /\ AtWork
    /\ element \in Range(H.heap)
    /\ v # objs[element].hits
    /\ objs' = [objs EXCEPT ![element] = SetKey(@, v)]
    /\ last' = [NoCall EXCEPT
                  !.op = "set_key", !.element = element,
                  !.index = Position(H.heap, element),
                  !.old = GetAttr(objs[element], H.sorting_key),
                  !.valid = WellFormed(H, objs)]
    /\ UNCHANGED <<H, player_record_mapping, abHeap, hitsHeap, rbiHeap,
                   avgHeap, hist, queries, run, runStart>>

\* the call about to be made with index repairs a single change of key: the
\* last call changed the key of the record at index, in a heap in order
Repairs(index) == last.op = "set_key" /\ last.valid /\ last.index = index

\* H.heapify_up(index)
heapify_up(index) ==
    /\ AtWork
    /\ H' = HeapifyUp(H, objs, Some(index)).self
    /\ last' = [NoCall EXCEPT
                  !.op = "heapify_up", !.index = index,
                  !.valid = Repairs(index),
                  !.element = IF Repairs(index) THEN last.element ELSE NoObj,
                  !.old = IF Repairs(index) THEN last.old ELSE NoCall.old,
                  !.outcome = HeapifyUp(H, objs, Some(index)).err,
                  !.swaps = HeapifyUpSwaps(H, objs, index, FloorParent(index))]
    /\ UNCHANGED <<objs, player_record_mapping, abHeap, hitsHeap, rbiHeap,
                   avgHeap, hist, queries, run, runStart>>

\* H.heapify_down(index)
heapify_down(index) ==
    /\ AtWork
    /\ H' = HeapifyDown(H, objs, Some(index)).self
    /\ last' = [NoCall EXCEPT
                  !.op = "heapify_down", !.index = index,
                  !.valid = Repairs(index),
                  !.element = IF Repairs(index) THEN last.element ELSE NoObj,
                  !.old = IF Repairs(index) THEN last.old ELSE NoCall.old,
                  !.outcome = HeapifyDown(H, objs, Some(index)).err,
                  !.swaps = HeapifyDownSwapsFrom(H, objs, index,
                                                 PickChild(H, objs, index))]
    /\ UNCHANGED <<objs, player_record_mapping, abHeap, hitsHeap, rbiHeap,
                   avgHeap, hist, queries, run, runStart>>

\* the indices a caller may pass: those of the array and one beyond it on
\* either side, and the negative ones Python reads from the end
Indices == (0 - Len(H.heap) - 1) .. Len(H.heap)

NextRepair ==
    \/ \E element \in Records : insert_element(element)
    \/ \E element \in Records, v \in 0 .. MaxHits : set_key(element, v)
    \/ \E index \in Indices : heapify_up(index)
    \/ \E index \in Indices : heapify_down(index)

SpecRepair == InitRepair /\ [][NextRepair]_vars

\* ------------------------------------------------------------------ claims

\* C1: in every state of a Heap reached by insert and extract_max, every
\* record in the array is found by get_index at an index inside the array,
\* and the slot at that index holds that record.
C1_MappingConsistency == MappingConsistent(H, objs)

\* C2: after any sequence of new_at_bat and current_best calls, each of the
\* four heaps of the Problem satisfies the max-heap property.
C2_TrackerHeapsValid ==
    \A stat \in Stats : ValidateHeap(HeapOf(stat), objs)

\* C3: current_best(stat, k) with a tracked stat returns exactly min(k, n)
\* records, in non-increasing order of stat, none smaller in stat than a
\* tracked record that was not returned.
C3_TopK ==
    (last.op = "current_best" /\ last.stat \in Stats) =>
        /\ last.outcome = "ok"
        /\ last.kind = "list"
        /\ Len(last.output) = Min(last.k, Cardinality(Tracked))
        /\ NonIncreasing(last.output, objs, last.stat)
        /\ \A x \in Range(last.output) :
             \A p \in Tracked :
                player_record_mapping[p] \notin Range(last.output) =>
                    ~Less(GetAttr(objs[x], last.stat),
                          GetAttr(objs[player_record_mapping[p]], last.stat))

\* C4: a Heap that starts empty and sees only insert (of records not in it)
\* and extract_max, with the keys left alone, satisfies the max-heap
\* property after every call.
C4_HeapValid == ValidateHeap(H, objs)

C4_Witness ==
    /\ last.op = "extract_max"
    /\ Len(H.heap) = 3
    /\ Len(run) = 1
    /\ Less(KeyAt(H, objs, 1), KeyAt(H, objs, 2))
    /\ Less(KeyAt(H, objs, 2), KeyAt(H, objs, 0))

\* current_best(stat, n) in the Problem P, n the number of its tracked
\* players, returns n records and every tracked identity
FullQueryReturnsAll(P, stat) ==
    LET n == Cardinality(DOMAIN P.player_record_mapping)
        full == CurrentBestOp(P, stat, n)
    IN /\ full.err = "ok"
       /\ full.kind = "list"
       /\ Len(full.output) = n
       /\ {P.objs[x].player : x \in Range(full.output)}
              = DOMAIN P.player_record_mapping

\* C5: every current_best(stat, k) with a tracked stat ends without an
\* exception and leaves in the queried heap the same records, each as
\* often as before (same length, none lost, none twice); a
\* current_best(stat, n) that follows returns n records and every tracked
\* identity exactly once.
C5_RoundTrip ==
    [][\A stat \in Stats :
          (last'.op = "current_best" /\ last'.stat = stat) =>
              /\ last'.outcome = "ok"
              /\ SameBag(HeapOf(stat).heap, HeapOf(stat)'.heap)
              /\ FullQueryReturnsAll(Prob', stat)]_vars

C5_Witness ==
    /\ last.op = "current_best"
    /\ last.stat = "avg"
    /\ last.k = 2
    /\ Len(last.output) = 2
    /\ Cardinality(Tracked) = 3
    /\ ~MappingConsistent(avgHeap, objs)

\* C6: for every tracked player the record current_stats returns has ab =
\* the number of new_at_bat calls made for the player, hits and rbi = the
\* sums of the hits and rbi arguments of those calls, and avg = hits / ab.
C6_UpdateCorrect ==
    \A p \in Tracked :
        /\ CurrentStatsOp(Prob, p).rec.ab = hist[p].n
        /\ CurrentStatsOp(Prob, p).rec.hits = hist[p].hits
        /\ CurrentStatsOp(Prob, p).rec.rbi = hist[p].rbi
        /\ CurrentStatsOp(Prob, p).rec.avg[1] * hist[p].n
               = hist[p].hits * CurrentStatsOp(Prob, p).rec.avg[2]
        /\ CurrentStatsOp(Prob, p).rec.player = p

C6_Witness ==
    /\ last.op = "new_at_bat"
    /\ last.hits = 0
    /\ last.rbi = 0
    /\ last.player \in Tracked
    /\ hist[last.player] = [n |-> 4, hits |-> 3, rbi |-> 3]
    /\ CurrentStatsOp(Prob, last.player).rec.avg = <<3, 4>>

\* C7: current_best with a stat that is none of ab, hits, rbi, avg ends in
\* an InvalidAttribute error, not in a returned value, and leaves the record
\* map, the records and the four heaps (arrays and mappings) as they were.
C7_InvalidAttributeRaised ==
    [][(last'.op = "current_best" /\ last'.stat \notin Stats) =>
          /\ last'.outcome = "InvalidAttribute"
          /\ UNCHANGED <<objs, player_record_mapping, abHeap, hitsHeap,
                         rbiHeap, avgHeap>>]_vars

\* C8: the records returned by extract_max calls that follow one another
\* come in non-increasing order of key, none twice; with the records still
\* in the heap they are the records the heap held before the first of these
\* calls; after as many calls as the heap held records the heap is empty.
C8_ExtractionOrder ==
    /\ NonIncreasing(run, objs, H.sorting_key)
    /\ Cardinality(Range(run)) = Len(run)
    /\ Range(run) \cup Range(H.heap) = runStart
    /\ Range(run) \cap Range(H.heap) = {}
    /\ Len(run) = Cardinality(runStart) => H.heap = <<>>

C8_Witness ==
    /\ last.op = "extract_max"
    /\ Len(run) = NumRecords
    /\ H.heap = <<>>
    /\ H.sorting_key = "hits"
    /\ Less(GetAttr(objs[run[3]], "hits"), GetAttr(objs[run[2]], "hits"))
    /\ Less(GetAttr(objs[run[2]], "hits"), GetAttr(objs[run[1]], "hits"))

\* the ab of the record returned for an unknown player (line 300)
SentinelAb == 1

\* C9: current_stats of a player never passed to new_at_bat raises nothing
\* and returns a fresh record with player None, ab 0 or the documented 1,
\* hits 0, rbi 0 and avg 0.0; the record map, the records and the four
\* heaps stay as they were.
C9_UnseenDefault ==
    [][(last'.op = "current_stats" /\ last'.player \notin Tracked) =>
          /\ last'.outcome = "ok"
          /\ last'.kind = "record"
          /\ last'.ref = NoObj
          /\ CurrentStatsOp(Prob, last'.player).rec.player = NoPlayer
          /\ CurrentStatsOp(Prob, last'.player).rec.ab \in {0, SentinelAb}
          /\ CurrentStatsOp(Prob, last'.player).rec.hits = 0
          /\ CurrentStatsOp(Prob, last'.player).rec.rbi = 0
          /\ CurrentStatsOp(Prob, last'.player).rec.avg = <<0, 1>>
          /\ UNCHANGED <<objs, player_record_mapping, abHeap, hitsHeap,
                         rbiHeap, avgHeap>>]_vars

C9_Witness ==
    /\ last.op = "current_stats"
    /\ last.player \notin Tracked
    /\ last.ref = NoObj
    /\ Cardinality(Tracked) = 2

\* heaps and record map hold the same identities and the same objects
Membership ==
    \A stat \in Stats :
        /\ Len(HeapOf(stat).heap) = Cardinality(Tracked)
        /\ \A i \in 1 .. Len(HeapOf(stat).heap) :
              /\ objs[HeapOf(stat).heap[i]].player \in Tracked
              /\ player_record_mapping[objs[HeapOf(stat).heap[i]].player]
                     = HeapOf(stat).heap[i]
        /\ \A p \in Tracked :
              Count(HeapOf(stat).heap, player_record_mapping[p]) = 1

\* C10: after every call each of the four heap arrays holds every tracked
\* identity exactly once and nothing else, each slot holds the very record
\* object the record map holds for its identity, and an identity once in
\* the record map stays in it.
C10_Membership ==
    [][Membership' /\ Tracked \subseteq Tracked']_vars

C10_Witness ==
    /\ last.op = "new_at_bat"
    /\ last.player \in Tracked
    /\ hist[last.player].n = 2
    /\ queries = 1
    /\ Cardinality(Tracked) = 3
    /\ ~MappingConsistent(hitsHeap, objs)

\* C11: a record that is not in the heap array has no index: get_index
\* returns None for it, so also for a record extract_max has returned, until
\* it is inserted again.
C11_RemovalClearsIndex ==
    \A r \in Records :
        r \notin Range(H.heap) => GetIndex(H, objs, r) = None

\* C12: an insert of a record that is in the heap already, and a heapify_up
\* or heapify_down call with an index outside the array (negative ones
\* included), raise an exception and leave the array and the mapping as they
\* were.
C12_ContractViolationsFail ==
    [][/\ (last'.op = "insert" /\ last'.element \in Range(H.heap)) =>
              (last'.outcome # "ok" /\ H' = H)
       /\ (/\ last'.op \in {"heapify_up", "heapify_down"}
           /\ last'.index \notin 0 .. Len(H.heap) - 1) =>
              (last'.outcome # "ok" /\ H' = H)]_vars

\* C13: extract_max on a heap with no element raises nothing, returns None
\* and leaves the array and the mapping as they were; extract_max on a heap
\* with one element raises nothing, returns that element and leaves the
\* array empty.
C13_EmptyHeap ==
    [][last'.op = "extract_max" =>
          /\ Len(H.heap) = 0 =>
                /\ last'.outcome = "ok"
                /\ last'.kind = "None"
                /\ last'.ref = NoObj
                /\ H' = H
          /\ Len(H.heap) = 1 =>
                /\ last'.outcome = "ok"
                /\ last'.kind = "record"
                /\ last'.ref = H.heap[1]
                /\ H'.heap = <<>>]_vars

C13_Witness ==
    /\ last.op = "extract_max"
    /\ last.outcome = "ok"
    /\ last.ref = NoObj
    /\ H.heap = <<>>
    /\ Len(run) = 1
    /\ DOMAIN H.mapping # {}

\* the record in slot i after heapify_down(i), if it is not the one that
\* was there, is the child of i with the larger key (both children exist)
LargerChildTaken(self, after, o, i) ==
    (2 * i + 2 < Len(self.heap) /\ PyGet(after.heap, i) # PyGet(self.heap, i)) =>
        /\ PyGet(after.heap, i) \in {PyGet(self.heap, 2 * i + 1),
                                     PyGet(self.heap, 2 * i + 2)}
        /\ ~Less(GetAttr(o[PyGet(after.heap, i)], self.sorting_key),
                 KeyAt(self, o, 2 * i + 1))
        /\ ~Less(GetAttr(o[PyGet(after.heap, i)], self.sorting_key),
                 KeyAt(self, o, 2 * i + 2))

\* C14: in a heap that has the max-heap property, a consistent mapping and
\* no record twice, the key of the record at index i is changed in place;
\* then heapify_up(i), when the key was increased, and heapify_down(i), when
\* it was decreased, raise nothing and leave a heap with the max-heap
\* property; heapify_down(i) moves into slot i only the child with the
\* larger key; the array holds the same records as before.
C14_SinglePointRepair ==
    [][(last'.op \in {"heapify_up", "heapify_down"} /\ last'.valid) =>
          /\ SameBag(H.heap, H'.heap)
          /\ (/\ last'.op = "heapify_up"
              /\ Less(last'.old, KeyAt(H, objs, last'.index))) =>
                 /\ last'.outcome = "ok"
                 /\ ValidateHeap(H', objs')
          /\ (/\ last'.op = "heapify_down"
              /\ Less(KeyAt(H, objs, last'.index), last'.old)) =>
                 /\ last'.outcome = "ok"
                 /\ ValidateHeap(H', objs')
                 /\ LargerChildTaken(H, H', objs, last'.index)]_vars

C14_Witness ==
    /\ last.op = "heapify_down"
    /\ last.valid
    /\ last.index = 0
    /\ last.swaps = 2
    /\ Len(H.heap) = 4
    /\ Less(GetAttr(objs[last.element], H.sorting_key), last.old)
    /\ PyGet(H.heap, 3) = last.element

\* C15: a new_at_bat for a tracked player moves each key in the direction
\* of the repair it calls: ab, hits and rbi do not decrease (heapify_up),
\* avg does not increase when the call has hits = 0 (heapify_down) and does
\* not decrease when it has hits > 0 (heapify_up).
C15_SiftDirection ==
    [][\A p \in Tracked :
          (last'.op = "new_at_bat" /\ last'.player = p) =>
              /\ \A stat \in {"ab", "hits", "rbi"} :
                    ~Less(GetAttr(objs'[player_record_mapping[p]], stat),
                          GetAttr(objs[player_record_mapping[p]], stat))
              /\ last'.hits = 0 =>
                    ~Less(objs[player_record_mapping[p]].avg,
                          objs'[player_record_mapping[p]].avg)
              /\ last'.hits > 0 =>
                    ~Less(objs'[player_record_mapping[p]].avg,
                          objs[player_record_mapping[p]].avg)]_vars

\* C16: when new_at_bat is called for a tracked player, get_index gives
\* for the player's record, in each of the four heaps, an index that is not
\* None, lies inside the array and is the slot the record is in; no repair
\* call raises.
C16_RepairAtTruePosition ==
    [][\A p \in Tracked :
          (last'.op = "new_at_bat" /\ last'.player = p) =>
              /\ last'.outcome = "ok"
              /\ \A stat \in Stats :
                    /\ GetIndex(HeapOf(stat), objs, player_record_mapping[p])
                           # None
                    /\ GetIndex(HeapOf(stat), objs,
                                player_record_mapping[p])[1]
                           \in 0 .. Len(HeapOf(stat).heap) - 1
                    /\ PyGet(HeapOf(stat).heap,
                             GetIndex(HeapOf(stat), objs,
                                      player_record_mapping[p])[1])
                           = player_record_mapping[p]]_vars

\* floor(log2 n), n >= 1
RECURSIVE FloorLog2(_)
FloorLog2(n) == IF n <= 1 THEN 0 ELSE 1 + FloorLog2(n \div 2)

\* C17: heapify_up(i) and heapify_down(i) with an index i of the array
\* return, without an exception, after at most floor(log2 n) + 1 swaps, n
\* the length of the array; heapify_up(0) leaves the array and the mapping
\* as they were, whatever the heap holds.
C17_TerminationAndRoot ==
    [][(/\ last'.op \in {"heapify_up", "heapify_down"}
        /\ last'.index \in 0 .. Len(H.heap) - 1) =>
          /\ last'.outcome = "ok"
          /\ last'.swaps <= FloorLog2(Len(H.heap)) + 1
          /\ (last'.op = "heapify_up" /\ last'.index = 0) => H' = H]_vars

C17_Witness ==
    /\ last.op = "heapify_up"
    /\ last.index = 0
    /\ last.outcome = "ok"
    /\ Len(H.heap) = 4
    /\ Less(KeyAt(H, objs, FloorParent(0)), KeyAt(H, objs, 0))
    /\ ~ValidateHeap(H, objs)

\* C18: on a heap that has the max-heap property, heapify_up(i) and
\* heapify_down(i) with an index i of the array raise nothing and leave the
\* array and the mapping exactly as they were.
C18_RepairIdempotent ==
    [][(/\ last'.op \in {"heapify_up", "heapify_down"}
        /\ last'.index \in 0 .. Len(H.heap) - 1
        /\ ValidateHeap(H, objs)) =>
          /\ last'.outcome = "ok"
          /\ H' = H]_vars

C18_Witness ==
    /\ last.op = "heapify_down"
    /\ last.index = 0
    /\ last.outcome = "ok"
    /\ last.swaps = 0
    /\ Len(H.heap) = 4
    /\ ValidateHeap(H, objs)
    /\ KeyAt(H, objs, 0) = KeyAt(H, objs, 2)
    /\ Less(KeyAt(H, objs, 1), KeyAt(H, objs, 2))

\* the stat values of the records of a returned list
StatValues(output, o, stat) ==
    [i \in 1 .. Len(output) |-> GetAttr(o[output[i]], stat)]

\* C19: current_best(stat, k) changes no record, leaves the record map and
\* the three heaps that stat does not name as they were, and a second
\* current_best(stat, k) made right after it returns the same sequence of
\* stat values.
C19_QueryReadOnly ==
    [][\A stat \in Stats :
          (last'.op = "current_best" /\ last'.stat = stat) =>
              /\ objs' = objs
              /\ player_record_mapping' = player_record_mapping
              /\ \A other \in Stats \ {stat} : HeapOf(other)' = HeapOf(other)
              /\ StatValues(CurrentBestOp(Prob', stat, last'.k).output,
                            objs', stat)
                     = StatValues(last'.output, objs', stat)]_vars

====
